---------------------------- MODULE Spec2Model ----------------------------
(***************************************************************************)
(* Model of dummy/dummycreations.py: the synthetic system-monitoring data  *)
(* generator (generate_system_monitoring_data, generate_normal_row,        *)
(* generate_anomaly_row) together with the two seeded pseudo-random        *)
(* generators it draws from.                                               *)
(***************************************************************************)
EXTENDS Integers, Sequences, FiniteSets, TLC

VARIABLES
    n_samples,        \* argument of generate_system_monitoring_data
    anomaly_ratio,    \* argument, a rational [num, den] with den > 0
    pc,               \* position in the script / function
    i,                \* loop variable of "for i in range(n_samples)"
    anomaly_indices,  \* the set built on line 19
    data,             \* the list of row dicts
    calls,            \* log of the row-generator invocations (who made row k)
    np_random,        \* state of numpy's global generator
    py_random,        \* state of the random module's global generator
    run,              \* which execution of the script this is (1 or 2)
    prev_run          \* outcome of the previous execution of the script

vars == <<n_samples, anomaly_ratio, pc, i, anomaly_indices, data, calls,
          np_random, py_random, run, prev_run>>

-----------------------------------------------------------------------------
(* Bounds of the exploration.                                              *)

MaxSamples == 3
TimeSamples == 8
RerunSamples == 2

-----------------------------------------------------------------------------
(* Python floats, kept as sign, whole part and thousandths, so that int(), *)
(* round(x, 2), max(0, x) and "%.2f" act on a fraction and on a sign       *)
(* (-0.0 included) as they do in Python.                                   *)

Flt(s, w, m) == [sign |-> s, whole |-> w, milli |-> m]
Dec(w, m) == Flt(1, w, m)
IsPositive(x) == x.sign = 1 /\ (x.whole > 0 \/ x.milli > 0)

\* int(x): truncation toward zero.
PyInt(x) == x.sign * x.whole

\* round(x, 2): to the nearest hundredth, ties to even; the sign is kept,
\* so round(-0.004, 2) is -0.0.
PyRound2(x) ==
    LET c  == x.milli \div 10
        r  == x.milli % 10
        h  == x.whole * 100 + c
        up == r > 5 \/ (r = 5 /\ h % 2 = 1)
        h2 == IF up THEN h + 1 ELSE h
    IN  Flt(x.sign, h2 \div 100, (h2 % 100) * 10)

\* max(0, x): x when x > 0, else the first argument, the integer 0
\* (-0.0 > 0 is false, so max(0, -0.0) is 0).
PyMax0NoClamp(x) == x
PyMax0(x) == IF IsPositive(x) THEN x ELSE Flt(1, 0, 0)

DigitChar(d) == <<"0", "1", "2", "3", "4", "5", "6", "7", "8", "9">>[d + 1]
DigitVal(c) == CHOOSE d \in 0..9 : DigitChar(d) = c

RECURSIVE Digits(_)
Digits(k) == IF k < 10 THEN DigitChar(k)
             ELSE Digits(k \div 10) \o DigitChar(k % 10)

\* k in at least width digits, zero-padded on the left (%02d, %06d, ...).
ZeroPad(k, width) ==
    LET s == Digits(k)
    IN  IF Len(s) >= width THEN s
        ELSE SubSeq("000000", 1, width - Len(s)) \o s

\* f"{x:.2f}": optional "-", the whole part, ".", two digits.
Format2f(x) ==
    LET y == PyRound2(x)
    IN  (IF y.sign = -1 THEN "-" ELSE "")
        \o Digits(y.whole) \o "." \o ZeroPad(y.milli \div 10, 2)

\* s.replace(a, b) for a one-character a.
RECURSIVE Replace(_, _, _)
Replace(s, a, b) ==
    IF s = "" THEN ""
    ELSE (IF Head(s) = a THEN b ELSE Head(s)) \o Replace(Tail(s), a, b)

\* The load-average text of a row: f"{v:.2f}".replace('.', ',').
LoadText(v) == Replace(Format2f(v), ".", ",")

-----------------------------------------------------------------------------
(* datetime and timedelta.  A timedelta is normalised to seconds and       *)
(* microseconds; the model's runs stay within the month of start_time.     *)

Million == 1000 * 1000

timedelta(seconds, microseconds) ==
    [seconds      |-> seconds + microseconds \div Million,
     microseconds |-> microseconds % Million]

start_time ==
    [year |-> 2024, month |-> 11, day |-> 6,
     hour |-> 8, minute |-> 0, second |-> 0, microsecond |-> 0]

DatetimeAdd(dt, td) ==
    LET us   == dt.microsecond + td.microseconds
        secs == dt.hour * 3600 + dt.minute * 60 + dt.second
                + td.seconds + us \div Million
        sod  == secs % 86400
    IN  [year |-> dt.year, month |-> dt.month,
         day |-> dt.day + secs \div 86400,
         hour |-> sod \div 3600, minute |-> (sod % 3600) \div 60,
         second |-> sod % 60, microsecond |-> us % Million]

\* dt.strftime('%Y-%m-%d %H:%M:%S.%f')
strftime(dt) ==
    ZeroPad(dt.year, 4) \o "-" \o ZeroPad(dt.month, 2) \o "-"
    \o ZeroPad(dt.day, 2) \o " " \o ZeroPad(dt.hour, 2) \o ":"
    \o ZeroPad(dt.minute, 2) \o ":" \o ZeroPad(dt.second, 2) \o "."
    \o ZeroPad(dt.microsecond, 6)

\* timestamp.strftime(...)[:-3]
CreatedAtText(dt) == LET s == strftime(dt) IN SubSeq(s, 1, Len(s) - 3)


-----------------------------------------------------------------------------
(* The two global generators.  A generator seeded with a fixed value       *)
(* yields one fixed stream of outputs; the stream is unknown, so it is     *)
(* revealed as it is consumed: tape holds the outputs produced so far from *)
(* the seeded state, pos the number of them consumed since the last        *)
(* seeding.  The same call at the same position returns the same value.    *)

normal(loc, scale) == [kind |-> "normal", a |-> loc, b |-> scale]
uniform(low, high) == [kind |-> "uniform", a |-> low, b |-> high]
randint(a, b) == [kind |-> "randint", a |-> a, b |-> b]
choice(seq) == [kind |-> "choice", a |-> seq, b |-> 0]
randbelow(n) == [kind |-> "randbelow", a |-> n, b |-> 0]
sample(a, size) == [kind |-> "sample", a |-> a, b |-> size]

\* What a call asks of its generator: random.randint(a, b) is
\* a + _randbelow(b - a + 1) and random.choice(seq) is
\* seq[_randbelow(len(seq))]; the numpy calls are taken as they are.
Underlying(call) ==
    CASE call.kind = "randint" -> randbelow(call.b - call.a + 1)
      [] call.kind = "choice"  -> randbelow(Len(call.a))
      [] OTHER                 -> call

\* The value the call returns when its generator returned raw.
Value(call, raw) ==
    CASE call.kind = "randint" -> call.a + raw
      [] call.kind = "choice"  -> call.a[raw + 1]
      [] OTHER                 -> raw

SameCall(c1, c2) == c1.kind = c2.kind /\ c1 = c2

\* The largest modelled float below x (x > 0).
Pred(x) == IF x.milli > 0 THEN Flt(x.sign, x.whole, x.milli - 1)
           ELSE Flt(x.sign, x.whole - 1, 999)

\* np.random.choice(a, size, replace=False), as the set of its values:
\* size distinct integers of range(a).
NpChoiceWithReplacement(a, size) ==
    {S \in SUBSET (0..(a - 1)) :
        Cardinality(S) <= size /\ (size > 0 => Cardinality(S) >= 1)}
NpChoiceNoReplacement(a, size) ==
    {S \in SUBSET (0..(a - 1)) : Cardinality(S) = size}

\* When np.random.choice(a, size, replace=False) raises ValueError.
NpChoiceRaises(a, size) ==
    \/ a <= 0 /\ size # 0
    \/ size > a
    \/ size < 0

\* Representative outputs of a generator call.  A normal draw is unbounded:
\* its mean, a value that rounds to -0.0, and a value below -1.  A uniform
\* draw lies in [low, high); _randbelow(n) in 0..n-1, every value for a
\* short range and both ends for a long one.
Reps(call) ==
    CASE call.kind = "normal"  -> <<call.a, Flt(-1, 0, 4), Flt(-1, 1, 500)>>
      [] call.kind = "uniform" -> <<call.a, Pred(call.b)>>
      [] call.kind = "randbelow" ->
           IF call.a <= 7 THEN [k \in 1..call.a |-> k - 1]
           ELSE <<0, call.a - 1>>

Dom(call, wide) ==
    IF call.kind = "sample" THEN NpChoiceNoReplacement(call.a, call.b)
    ELSE LET r == Reps(call)
         IN  IF wide THEN {r[k] : k \in 1..Len(r)} ELSE {r[1]}

\* The sequences of generator outputs that the calls, made in order from
\* state g, can get.
RECURSIVE DrawSeq(_, _, _)
DrawSeq(g, calls_, wide) ==
    IF calls_ = << >> THEN {<< >>}
    ELSE LET p     == g.pos + 1
             c     == Underlying(calls_[1])
             first == IF p <= Len(g.tape) /\ SameCall(g.tape[p].call, c)
                      THEN {g.tape[p].val}
                      ELSE Dom(c, wide)
         IN  {<<v>> \o rest : v \in first,
                  rest \in DrawSeq([g EXCEPT !.pos = p], Tail(calls_), wide)}

\* The generator after those calls got vals.
Advance(g, calls_, vals) ==
    LET last == g.pos + Len(calls_)
        new  == [k \in 1..Len(calls_) |->
                    [call |-> Underlying(calls_[k]), val |-> vals[k]]]
    IN  [tape |-> IF g.pos >= Len(g.tape) THEN g.tape \o new
                  ELSE SubSeq(g.tape, 1, g.pos) \o new
                       \o SubSeq(g.tape, last + 1, Len(g.tape)),
         pos  |-> last]

\* A generator before any seeding.
Unseeded == [tape |-> << >>, pos |-> 0]

\* np.random.seed(42) / random.seed(42): back to the start of the stream
\* of seed 42.  Without a fixed seed the stream is a new one.
SeedFromEntropy(g) == [g EXCEPT !.tape = << >>, !.pos = 0]
np_random_seed(g) == [g EXCEPT !.pos = 0]
random_seed(g) == [g EXCEPT !.pos = 0]

-----------------------------------------------------------------------------
(* The profiles: which call produces each field.                           *)

AnomalyTypes ==
    <<"high_load", "high_cpu", "memory_spike", "disk_spike",
      "network_spike", "system_stress", "resource_leak">>

NormalMem == normal(Dec(7914000, 0), Dec(5000, 0))
NormalRoot == normal(Dec(10093250, 0), Dec(100, 0))
NormalLog == normal(Dec(10310000, 0), Dec(2000, 0))
NormalAlloc == normal(Dec(647000000, 0), Dec(500000, 0))
NormalRx == [base |-> 19100000, call |-> randint(0, 50000)]
NormalTx == [base |-> 1823000, call |-> randint(0, 1000)]
Direct(lo, hi) == [base |-> 0, call |-> randint(lo, hi)]
U(lo, hi) == uniform(Dec(lo, 0), Dec(hi, 0))

NormalProfile ==
    [l1 |-> normal(Dec(0, 200), Dec(0, 150)),
     l5 |-> normal(Dec(0, 220), Dec(0, 120)),
     l15 |-> normal(Dec(0, 200), Dec(0, 100)),
     cpu |-> choice(<<0, 0, 0, 0, 1, 1, 2>>),
     mem |-> NormalMem, root |-> NormalRoot, log |-> NormalLog,
     alloc |-> NormalAlloc, rx |-> NormalRx, tx |-> NormalTx]

HighLoadCpuWide == randint(50, 100)
HighLoadCpu == randint(50, 95)

MemorySpikeCpuLow == randint(0, 25)
MemorySpikeCpu == randint(5, 25)

AnomalyProfile(anomaly_type) ==
    CASE anomaly_type = "high_load" ->
           [l1 |-> uniform(Dec(2, 0), Dec(8, 0)),
            l5 |-> uniform(Dec(1, 500), Dec(4, 0)),
            l15 |-> uniform(Dec(1, 0), Dec(2, 500)),
            cpu |-> HighLoadCpu,
            mem |-> NormalMem, root |-> NormalRoot, log |-> NormalLog,
            alloc |-> NormalAlloc, rx |-> NormalRx, tx |-> NormalTx]
      [] anomaly_type = "high_cpu" ->
           [l1 |-> normal(Dec(0, 300), Dec(0, 100)),
            l5 |-> normal(Dec(0, 250), Dec(0, 100)),
            l15 |-> normal(Dec(0, 220), Dec(0, 80)),
            cpu |-> randint(80, 100),
            mem |-> NormalMem, root |-> NormalRoot, log |-> NormalLog,
            alloc |-> NormalAlloc, rx |-> NormalRx, tx |-> NormalTx]
      [] anomaly_type = "memory_spike" ->
           [l1 |-> normal(Dec(0, 400), Dec(0, 200)),
            l5 |-> normal(Dec(0, 350), Dec(0, 150)),
            l15 |-> normal(Dec(0, 250), Dec(0, 100)),
            cpu |-> MemorySpikeCpu,
            mem |-> U(15000000, 25000000),
            root |-> NormalRoot, log |-> NormalLog,
            alloc |-> NormalAlloc, rx |-> NormalRx, tx |-> NormalTx]
      [] anomaly_type = "disk_spike" ->
           [l1 |-> normal(Dec(0, 800), Dec(0, 300)),
            l5 |-> normal(Dec(0, 600), Dec(0, 200)),
            l15 |-> normal(Dec(0, 400), Dec(0, 150)),
            cpu |-> randint(15, 40),
            mem |-> NormalMem,
            root |-> U(15000000, 20000000),
            log |-> U(20000000, 30000000),
            alloc |-> NormalAlloc, rx |-> NormalRx, tx |-> NormalTx]
      [] anomaly_type = "network_spike" ->
           [l1 |-> normal(Dec(0, 600), Dec(0, 200)),
            l5 |-> normal(Dec(0, 500), Dec(0, 150)),
            l15 |-> normal(Dec(0, 300), Dec(0, 100)),
            cpu |-> randint(10, 30),
            mem |-> normal(Dec(8500000, 0), Dec(200000, 0)),
            root |-> NormalRoot, log |-> NormalLog,
            alloc |-> U(800000000, 1200000000),
            rx |-> Direct(25000000, 40000000),
            tx |-> Direct(2500000, 4000000)]
      [] anomaly_type = "system_stress" ->
           [l1 |-> uniform(Dec(3, 0), Dec(6, 0)),
            l5 |-> uniform(Dec(2, 0), Dec(4, 0)),
            l15 |-> uniform(Dec(1, 500), Dec(3, 0)),
            cpu |-> randint(70, 95),
            mem |-> U(12000000, 18000000),
            root |-> U(12000000, 15000000),
            log |-> U(15000000, 25000000),
            alloc |-> U(750000000, 950000000),
            rx |-> Direct(22000000, 35000000),
            tx |-> Direct(2200000, 3500000)]
      [] OTHER ->  \* resource_leak
           [l1 |-> uniform(Dec(1, 0), Dec(2, 500)),
            l5 |-> uniform(Dec(1, 200), Dec(2, 800)),
            l15 |-> uniform(Dec(1, 500), Dec(3, 200)),
            cpu |-> randint(25, 60),
            mem |-> U(10000000, 14000000),
            root |-> NormalRoot, log |-> NormalLog,
            alloc |-> U(680000000, 750000000),
            rx |-> NormalRx, tx |-> NormalTx]

\* The calls a profile makes on each generator, in the order of the code.
NpCalls(P) == <<P.l1, P.l5, P.l15, P.mem, P.root, P.log, P.alloc>>
PyCalls(P) == <<P.cpu, P.rx.call, P.tx.call>>

\* The dict a row function returns, from the values its calls returned.
RowDict(P, nv, pv, timestamp) ==
    [fw_load_avg_1_min  |-> LoadText(PyMax0(PyRound2(nv[1]))),
     fw_load_avg_5_min  |-> LoadText(PyMax0(PyRound2(nv[2]))),
     fw_load_avg_15_min |-> LoadText(PyMax0(PyRound2(nv[3]))),
     fw_cpu_used        |-> Value(P.cpu, pv[1]),
     mem_used           |-> PyInt(nv[4]),
     root_used          |-> PyInt(nv[5]),
     log_used           |-> PyInt(nv[6]),
     fw_total_alloc     |-> PyInt(nv[7]),
     total_rx_packets   |-> P.rx.base + Value(P.rx.call, pv[2]),
     total_tx_packets   |-> P.tx.base + Value(P.tx.call, pv[3]),
     created_at         |-> CreatedAtText(timestamp)]

\* A row function run with profile P: the row is appended to data, the
\* invocation (entry) is logged, both generators advance.
RowStep(P, timestamp, np, py, wide, entry) ==
    \E nv \in DrawSeq(np, NpCalls(P), wide) :
      \E pv \in DrawSeq(py, PyCalls(P), wide) :
        /\ data' = Append(data, RowDict(P, nv, pv, timestamp))
        /\ calls' = Append(calls, entry)
        /\ np_random' = Advance(np, NpCalls(P), nv)
        /\ py_random' = Advance(py, PyCalls(P), pv)

LogEntry(fn, anomaly_type, index, time_offset) ==
    [fn |-> fn, anomaly_type |-> anomaly_type, index |-> index,
     time_offset |-> time_offset]

generate_normal_row(timestamp, np, py, wide, index, time_offset) ==
    RowStep(NormalProfile, timestamp, np, py, wide,
            LogEntry("generate_normal_row", "none", index, time_offset))

generate_anomaly_row(timestamp, np, py, wideType, wide, index, time_offset) ==
    \E t \in DrawSeq(py, <<choice(AnomalyTypes)>>, wideType) :
        LET anomaly_type == Value(choice(AnomalyTypes), t[1])
        IN  RowStep(AnomalyProfile(anomaly_type), timestamp, np,
                    Advance(py, <<choice(AnomalyTypes)>>, t), wide,
                    LogEntry("generate_anomaly_row", anomaly_type, index,
                             time_offset))

-----------------------------------------------------------------------------
(* generate_system_monitoring_data.                                        *)

Rat(num, den) == [num |-> num, den |-> den]

\* n_samples * anomaly_ratio, as a float.
Product(n, ratio) ==
    LET p == n * ratio.num
        m == IF p < 0 THEN -p ELSE p
    IN  Flt(IF p < 0 THEN -1 ELSE 1, m \div ratio.den,
            ((m % ratio.den) * 1000) \div ratio.den)

\* int(n_samples * anomaly_ratio)
AnomalyCountRounded(n, ratio) ==
    LET x  == Product(n, ratio)
        up == x.milli > 500 \/ (x.milli = 500 /\ x.whole % 2 = 1)
    IN  x.sign * (x.whole + IF up THEN 1 ELSE 0)
AnomalyCount(n, ratio) == PyInt(Product(n, ratio))

\* seconds=i * 45
BaseSecondsFromOne(k) == (k + 1) * 45
BaseSecondsShort(k) == k * 40
BaseSeconds(k) == k * 45

JitterCalls == <<randint(10, 300), randint(0, 999999)>>

\* Generator outputs explored for the two jitter calls: both ends of each
\* call, or the shortest jitter (10 s), 10.999999 s and the longest
\* (300.999999 s).
JitterAll == {<<s, u>> : s \in {0, 290}, u \in {0, 999999}}
JitterEnds == {<<0, 0>>, <<0, 999999>>, <<290, 999999>>}

\* Lines 18-19: data = [] and the selection of the anomalous indices, which
\* raises when np.random.choice rejects its arguments.
Select ==
    /\ pc = "start"
    /\ LET size == AnomalyCount(n_samples, anomaly_ratio)
           c    == <<sample(n_samples, size)>>
       IN  IF NpChoiceRaises(n_samples, size)
           THEN /\ pc' = "error"
                /\ UNCHANGED <<anomaly_indices, np_random>>
           ELSE /\ pc' = "loop"
                /\ \E v \in DrawSeq(np_random, c, TRUE) :
                      /\ anomaly_indices' = v[1]
                      /\ np_random' = Advance(np_random, c, v)
    /\ data' = << >>
    /\ i' = 0
    /\ UNCHANGED <<n_samples, anomaly_ratio, calls, py_random, run, prev_run>>

\* Lines 21-38: one iteration of the loop.
LoopStep(jitters, wideType, wide) ==
    /\ pc = "loop"
    /\ i < n_samples
    /\ \E j \in DrawSeq(py_random, JitterCalls, TRUE) \cap jitters :
         LET time_offset  == timedelta(Value(JitterCalls[1], j[1]),
                                       Value(JitterCalls[2], j[2]))
             current_time ==
                 DatetimeAdd(DatetimeAdd(start_time,
                                         timedelta(BaseSeconds(i), 0)),
                             time_offset)
             py1        == Advance(py_random, JitterCalls, j)
             is_anomaly == i \in anomaly_indices
         IN  IF is_anomaly
             THEN generate_anomaly_row(current_time, np_random, py1,
                                       wideType, wide, i, time_offset)
             ELSE generate_normal_row(current_time, np_random, py1,
                                      wide, i, time_offset)
    /\ i' = i + 1
    /\ UNCHANGED <<n_samples, anomaly_ratio, pc, anomaly_indices, run,
                   prev_run>>

\* Line 40: range(n_samples) is exhausted and the frame is returned.
Return ==
    /\ pc = "loop"
    /\ i >= n_samples
    /\ pc' = "returned"
    /\ UNCHANGED <<n_samples, anomaly_ratio, i, anomaly_indices, data, calls,
                   np_random, py_random, run, prev_run>>

\* The script is executed again with the same arguments: lines 7-8 seed
\* both generators anew before line 211 calls the function.
Rerun ==
    /\ pc \in {"returned", "error"}
    /\ run = 1
    /\ prev_run' = [pc |-> pc, data |-> data]
    /\ run' = 2
    /\ np_random' = np_random_seed(np_random)
    /\ py_random' = random_seed(py_random)
    /\ pc' = "start"
    /\ data' = << >>
    /\ calls' = << >>
    /\ i' = 0
    /\ anomaly_indices' = {}
    /\ UNCHANGED <<n_samples, anomaly_ratio>>

\* A row function called on its own with some timestamp.
TimestampInput == DatetimeAdd(start_time, timedelta(57599, 999999))

CallNormalRow ==
    /\ pc = "call"
    /\ generate_normal_row(TimestampInput, np_random, py_random, TRUE,
                           0, timedelta(0, 0))
    /\ pc' = "called"
    /\ UNCHANGED <<n_samples, anomaly_ratio, i, anomaly_indices, run,
                   prev_run>>

CallAnomalyRow ==
    /\ pc = "call"
    /\ generate_anomaly_row(TimestampInput, np_random, py_random, TRUE, TRUE,
                            0, timedelta(0, 0))
    /\ pc' = "called"
    /\ UNCHANGED <<n_samples, anomaly_ratio, i, anomaly_indices, run,
                   prev_run>>

-----------------------------------------------------------------------------
(* Specifications.                                                         *)

RatioInputs ==
    {Rat(-1, 2), Rat(-1, 10), Rat(0, 1), Rat(1, 20), Rat(1, 5), Rat(1, 3),
     Rat(1, 2), Rat(2, 3), Rat(1, 1), Rat(6, 5), Rat(2, 1)}

InitWith(samples, ratios, at) ==
    /\ n_samples \in samples
    /\ anomaly_ratio \in ratios
    /\ pc = at
    /\ i = 0
    /\ anomaly_indices = {}
    /\ data = << >>
    /\ calls = << >>
    /\ np_random = np_random_seed(Unseeded)
    /\ py_random = random_seed(Unseeded)
    /\ run = 1
    /\ prev_run = [pc |-> "none", data |-> << >>]

\* The function on every argument, every jitter.
Init == InitWith(-1..MaxSamples, RatioInputs, "start")
Next == Select \/ LoopStep(JitterAll, FALSE, FALSE) \/ Return
Spec == Init /\ [][Next]_vars

\* A long sequence, all rows normal or all anomalous, the ends of the jitter.
InitTime == InitWith({TimeSamples}, {Rat(0, 1), Rat(1, 1)}, "start")
NextTime == Select \/ LoopStep(JitterEnds, FALSE, FALSE) \/ Return
SpecTime == InitTime /\ [][NextTime]_vars

\* The script executed twice.
InitRerun ==
    InitWith(0..RerunSamples, {Rat(0, 1), Rat(1, 2), Rat(1, 1)}, "start")
NextRerun == Select \/ LoopStep(JitterAll, TRUE, FALSE) \/ Return \/ Rerun
SpecRerun == InitRerun /\ [][NextRerun]_vars

\* One row function call, every value of every draw.
InitRow == InitWith({1}, {Rat(0, 1)}, "call")
NextRow == CallNormalRow \/ CallAnomalyRow
SpecRow == InitRow /\ [][NextRow]_vars

-----------------------------------------------------------------------------
(* Reading a row back.                                                     *)

RECURSIVE NumVal(_)
NumVal(s) == IF s = "" THEN 0
             ELSE NumVal(SubSeq(s, 1, Len(s) - 1)) * 10
                  + DigitVal(SubSeq(s, Len(s), Len(s)))

\* The number a load-average text denotes, in hundredths.
LoadValue(s) ==
    LET neg  == Head(s) = "-"
        body == IF neg THEN Tail(s) ELSE s
        cp   == Len(body) - 2
        v    == NumVal(SubSeq(body, 1, cp - 1)) * 100
                + NumVal(SubSeq(body, cp + 1, Len(body)))
    IN  IF neg THEN -v ELSE v

\* A load-average text is digits, a comma, two digits, with an optional sign.
LoadShape(s) ==
    LET body == IF Head(s) = "-" THEN Tail(s) ELSE s
    IN  /\ Len(body) >= 4
        /\ SubSeq(body, Len(body) - 2, Len(body) - 2) = ","
        /\ \A k \in 1..Len(body) :
              k # Len(body) - 2 =>
                  SubSeq(body, k, k) \in {DigitChar(d) : d \in 0..9}

\* Milliseconds from start_time to the instant a created_at text denotes.
CreatedAtMs(s) ==
    LET day == NumVal(SubSeq(s, 9, 10))
        hh  == NumVal(SubSeq(s, 12, 13))
        mm  == NumVal(SubSeq(s, 15, 16))
        ss  == NumVal(SubSeq(s, 18, 19))
        ms  == NumVal(SubSeq(s, 21, 23))
    IN  ((((day - start_time.day) * 24 + (hh - start_time.hour)) * 60
           + (mm - start_time.minute)) * 60 + (ss - start_time.second)) * 1000
        + ms

Rows == 1..Len(data)
IsAnomalyRow(k) == calls[k].fn = "generate_anomaly_row"
IsNormalRow(k) == calls[k].fn = "generate_normal_row"
AnomalousPositions == {k \in Rows : IsAnomalyRow(k)}
Loads(k) == {data[k].fw_load_avg_1_min, data[k].fw_load_avg_5_min,
             data[k].fw_load_avg_15_min}
RatioInUnit == /\ anomaly_ratio.num >= 0
               /\ anomaly_ratio.num <= anomaly_ratio.den
Floor(n, ratio) == (n * ratio.num) \div ratio.den
\* Nearest integer of n * ratio, ties to even.
Nearest(n, ratio) ==
    LET f == Floor(n, ratio)
        r == 2 * ((n * ratio.num) % ratio.den)
    IN  IF r > ratio.den \/ (r = ratio.den /\ f % 2 = 1) THEN f + 1 ELSE f

-----------------------------------------------------------------------------
(* C1: for n_samples >= 1 and anomaly_ratio in [0,1] the selection holds   *)
(* exactly floor(n_samples * anomaly_ratio) distinct indices of            *)
(* [0, n_samples), the rows at those indices and no others are made by     *)
(* generate_anomaly_row, the output has that many anomalous rows; none     *)
(* when the ratio is 0 and all when it is 1.                               *)
C1_SelectionExact ==
    (n_samples >= 1 /\ RatioInUnit) =>
        /\ pc # "error"
        /\ pc \in {"loop", "returned"} =>
              /\ Cardinality(anomaly_indices) = Floor(n_samples, anomaly_ratio)
              /\ anomaly_indices \subseteq 0..(n_samples - 1)
              /\ \A k \in Rows : IsAnomalyRow(k) <=> (k - 1) \in anomaly_indices
              /\ \A k \in Rows : IsNormalRow(k) <=> (k - 1) \notin anomaly_indices
        /\ pc = "returned" =>
              /\ Len(data) = n_samples
              /\ Cardinality(AnomalousPositions)
                     = Floor(n_samples, anomaly_ratio)
              /\ anomaly_ratio.num = 0 => AnomalousPositions = {}
              /\ anomaly_ratio.num = anomaly_ratio.den
                     => AnomalousPositions = Rows

C1_Witness ==
    /\ pc = "returned"
    /\ n_samples = 3
    /\ anomaly_ratio = Rat(2, 3)
    /\ anomaly_indices = {0, 2}
    /\ IsAnomalyRow(1) /\ IsNormalRow(2) /\ IsAnomalyRow(3)

(* C2: an anomaly_ratio outside [0,1] or an n_samples <= 0 ends in an      *)
(* error before any row is generated and without an output sequence.       *)
C2_ConfigErrorsRejected ==
    (n_samples <= 0 \/ ~RatioInUnit) =>
        /\ pc \in {"start", "error"}
        /\ calls = << >>

(* C7 as stated: the number of anomalous positions of the output is        *)
(* round(n_samples * anomaly_ratio), to the nearest integer.               *)
C7_AnomalousPositionsRounded ==
    (pc = "returned" /\ RatioInUnit) =>
        Cardinality(AnomalousPositions) = Nearest(n_samples, anomaly_ratio)

(* C7 as amended: the number of distinct anomalous positions of a          *)
(* generated sequence is floor(n_samples * anomaly_ratio), by truncation.  *)
C7_AnomalousPositionsFloor ==
    (pc = "returned" /\ RatioInUnit) =>
        /\ Cardinality(AnomalousPositions) = Floor(n_samples, anomaly_ratio)
        /\ AnomalousPositions = {j + 1 : j \in anomaly_indices}

C7_Witness ==
    /\ pc = "returned"
    /\ n_samples = 3
    /\ anomaly_ratio = Rat(1, 2)
    /\ Cardinality(AnomalousPositions) = 1

-----------------------------------------------------------------------------
OffsetUs(k) ==
    calls[k].time_offset.seconds * Million + calls[k].time_offset.microseconds
BaselineUs(k) == 45 * (k - 1) * Million
Ms(k) == CreatedAtMs(data[k].created_at)

(* C8 as stated: indices are visited in increasing order, one record per   *)
(* index, N records in all, and row i carries                              *)
(* created_at = start_time + 45*i s + jitter_i to the microsecond.         *)
C8_ExactTimestamp ==
    \A k \in Rows : Ms(k) * 1000 = BaselineUs(k) + OffsetUs(k)

(* C8 as amended: indices 0..N-1 are visited in increasing order, one      *)
(* record appended per index, N records in all, and row i carries          *)
(* created_at = start_time + 45*i s + jitter_i cut down to whole           *)
(* milliseconds, with 10 s <= jitter_i < 301 s drawn for that row.         *)
C8_OrderedAssembly ==
    /\ Len(calls) = Len(data)
    /\ pc = "loop" => Len(data) = i /\ i <= n_samples
    /\ pc = "returned" => Len(data) = n_samples
    /\ \A k \in Rows :
          /\ calls[k].index = k - 1
          /\ OffsetUs(k) >= 10 * Million
          /\ OffsetUs(k) < 301 * Million
          /\ Ms(k) = (BaselineUs(k) + OffsetUs(k)) \div 1000
          /\ k > 1 => BaselineUs(k) >= BaselineUs(k - 1)

C8_Witness ==
    /\ pc = "returned"
    /\ n_samples = 3
    /\ calls[1].time_offset = timedelta(10, 0)
    /\ calls[2].time_offset = timedelta(300, 999999)
    /\ IsAnomalyRow(2)
    /\ IsNormalRow(3)

(* C9: a row j at least 7 positions after row i has a strictly later       *)
(* created_at, whatever the jitter; at every distance up to 6 an output    *)
(* with created_at of row j earlier than or equal to that of row i exists. *)
C9_InversionsBounded ==
    \A a \in Rows : \A b \in Rows : b - a >= 7 => Ms(b) > Ms(a)

C9_Witness ==
    /\ Len(data) >= 8
    /\ \A d \in 1..6 : Ms(1 + d) <= Ms(1)
    /\ Ms(8) > Ms(1)

(* C6: a second execution of the script with the same seed, n_samples,     *)
(* anomaly_ratio and start time ends as the first did, with the same       *)
(* records field for field; while it runs, its output is a prefix of the   *)
(* first one's.                                                            *)
C6_Deterministic ==
    run = 2 =>
        /\ pc \in {"returned", "error"} =>
              prev_run = [pc |-> pc, data |-> data]
        /\ Len(data) <= Len(prev_run.data)
        /\ \A k \in Rows : data[k] = prev_run.data[k]

C6_Witness ==
    /\ run = 2
    /\ pc = "returned"
    /\ Len(data) = 2
    /\ IsAnomalyRow(1)
    /\ IsNormalRow(2)
    /\ calls[1].anomaly_type = "resource_leak"
    /\ calls[2].time_offset = timedelta(300, 999999)

(* C3: in every record each of mem_used, root_used, log_used,              *)
(* fw_total_alloc, total_rx_packets and total_tx_packets is >= 0.          *)
C3_CountersNonNegative ==
    \A k \in Rows :
        /\ data[k].mem_used >= 0
        /\ data[k].root_used >= 0
        /\ data[k].log_used >= 0
        /\ data[k].fw_total_alloc >= 0
        /\ data[k].total_rx_packets >= 0
        /\ data[k].total_tx_packets >= 0

(* C4: in every record, normal or anomalous, each load-average text has    *)
(* two fractional digits after a comma and denotes a value >= 0, with no   *)
(* minus sign, whatever the draw behind it.                                *)
C4_LoadsNonNegative ==
    \A k \in Rows : \A s \in Loads(k) :
        /\ LoadShape(s)
        /\ Head(s) # "-"
        /\ LoadValue(s) >= 0

C4_Witness ==
    /\ pc = "called"
    /\ IsAnomalyRow(1)
    /\ calls[1].anomaly_type = "high_cpu"
    /\ np_random.tape[1].val = Flt(-1, 0, 4)
    /\ np_random.tape[2].val = Flt(-1, 1, 500)
    /\ data[1].fw_load_avg_1_min = "0,00"
    /\ data[1].fw_load_avg_5_min = "0,00"
    /\ data[1].fw_load_avg_15_min = "0,22"

In(v, lo, hi) == lo <= v /\ v <= hi
LoadsIn(r, a1, b1, a5, b5, a15, b15) ==
    /\ In(LoadValue(r.fw_load_avg_1_min), a1, b1)
    /\ In(LoadValue(r.fw_load_avg_5_min), a5, b5)
    /\ In(LoadValue(r.fw_load_avg_15_min), a15, b15)

(* C5: every row made by generate_anomaly_row has one of the seven         *)
(* anomaly types, and the fields that type deviates lie in its declared    *)
(* ranges.                                                                 *)
C5_AnomalyRanges ==
    \A k \in Rows : IsAnomalyRow(k) =>
        LET t == calls[k].anomaly_type
            r == data[k]
        IN  /\ t \in {"high_load", "high_cpu", "memory_spike", "disk_spike",
                      "network_spike", "system_stress", "resource_leak"}
            /\ t = "high_load" =>
                  /\ LoadsIn(r, 200, 800, 150, 400, 100, 250)
                  /\ In(r.fw_cpu_used, 50, 95)
            /\ t = "high_cpu" => In(r.fw_cpu_used, 80, 100)
            /\ t = "memory_spike" =>
                  /\ In(r.mem_used, 15000000, 25000000)
                  /\ In(r.fw_cpu_used, 5, 25)
            /\ t = "disk_spike" =>
                  /\ In(r.root_used, 15000000, 20000000)
                  /\ In(r.log_used, 20000000, 30000000)
            /\ t = "network_spike" =>
                  /\ In(r.fw_total_alloc, 800000000, 1200000000)
                  /\ In(r.total_rx_packets, 25000000, 40000000)
                  /\ In(r.total_tx_packets, 2500000, 4000000)
            /\ t = "system_stress" =>
                  /\ In(r.fw_cpu_used, 70, 95)
                  /\ In(r.mem_used, 12000000, 18000000)
                  /\ In(r.root_used, 12000000, 15000000)
                  /\ In(r.log_used, 15000000, 25000000)
                  /\ In(r.fw_total_alloc, 750000000, 950000000)
                  /\ In(r.total_rx_packets, 22000000, 35000000)
                  /\ In(r.total_tx_packets, 2200000, 3500000)
            /\ t = "resource_leak" =>
                  /\ LoadsIn(r, 100, 250, 120, 280, 150, 320)
                  /\ In(r.fw_cpu_used, 25, 60)
                  /\ In(r.mem_used, 10000000, 14000000)
                  /\ In(r.fw_total_alloc, 680000000, 750000000)

C5_Witness ==
    /\ pc = "called"
    /\ IsAnomalyRow(1)
    /\ calls[1].anomaly_type = "system_stress"
    /\ data[1].fw_cpu_used = 95
    /\ data[1].mem_used = 17999999
    /\ data[1].fw_total_alloc = 750000000
    /\ data[1].total_rx_packets = 35000000

(* C10: rows of generate_normal_row have fw_cpu_used in {0,1,2}, rows of   *)
(* generate_anomaly_row in 5..100, so a row is anomalous iff its           *)
(* fw_cpu_used >= 5, and fw_cpu_used is always within 0..100.              *)
C10_CpuSeparates ==
    \A k \in Rows :
        /\ IsNormalRow(k) => data[k].fw_cpu_used \in {0, 1, 2}
        /\ IsAnomalyRow(k) => In(data[k].fw_cpu_used, 5, 100)
        /\ IsAnomalyRow(k) <=> data[k].fw_cpu_used >= 5
        /\ In(data[k].fw_cpu_used, 0, 100)

C10_Witness ==
    /\ pc = "called"
    /\ IsAnomalyRow(1)
    /\ calls[1].anomaly_type = "memory_spike"
    /\ data[1].fw_cpu_used = 5

=============================================================================
